---- MODULE Spec2Model ----
(***************************************************************************)
(* Model of the e-commerce backend's stateful security components and of  *)
(* its price resolution:                                                   *)
(*   - LoginAttemptTracker and the /auth/login, /auth/refresh handlers     *)
(*     (app/core/auth_security.py, app/api/v1/endpoints/auth.py);          *)
(*   - SecurityMiddleware.dispatch with its rate limiter, IP block list    *)
(*     and suspicious-activity counter (app/middleware/security.py,        *)
(*     app/services/ip_block.py);                                          *)
(*   - PriceCalculator / PriceListPricingStrategy                          *)
(*     (app/services/price_calculator.py).                                 *)
(* Time is datetime.utcnow() in whole seconds; a Tick action advances it.  *)
(***************************************************************************)
EXTENDS Integers, Sequences, FiniteSets, TLC

VARIABLES
    now,              \* datetime.utcnow(), seconds
    ticks,            \* number of clock advances so far (bounded)
    requests,         \* number of requests the middleware has seen (bounded)
    failed_attempts,  \* LoginAttemptTracker.failed_attempts: dict id -> list of times
    locked_accounts,  \* LoginAttemptTracker.locked_accounts: dict id -> lock time
    last_login,       \* response of the latest /auth/login or /auth/refresh request
    fails_since_ok,   \* per id: 401 answers since the latest successful login (capped)
    settings,         \* the Settings the process was started with (environment)
    rate_limits,      \* SecurityMiddleware.rate_limits: dict ip -> RateLimitEntry
    suspicious_ips,   \* SecurityMiddleware.suspicious_ips: dict ip -> score
    blocked_ips,      \* table blocked_ips: ip_address -> row
    whitelisted_ips,  \* table whitelisted_ips: set of ip_address
    admitted,         \* per ip: the requests _check_rate_limit let pass in the last hour
    last_response,    \* what dispatch did with the latest request
    price_lists,      \* table price_lists in row order, each row with its item for the product
    pricing,          \* the product and caller of a price calculation, and its result
    coupon,           \* table coupons: no row ({}) or the one row ({row})
    validation,       \* the arguments of a coupon validation or discount calculation, and its result
    workers,          \* per concurrent request: where it is and the Coupon object its session loaded
    coupon_uses,      \* how often apply_coupon_to_order has been applied to the coupon
    products,         \* table products: id -> row
    cart_items,       \* table cart_items, in row order
    cart_ops,         \* number of cart requests so far; the last id the table gave out
    cart_result,      \* the latest cart request and its status
    best_selling,     \* Redis and the sales: the cached rankings, and how many clears began and ended
    bs_requests,      \* per best-selling request: what it is, where it is, what it holds
    importer,         \* one run of import_products_from_csv: its file, its locals, the products table
    honeypot,         \* honeypot_tracker, and the latest form submission with its answer
    order_request     \* a user's cart and order: the items, what get_user_cart and create_order gave

loginVars == <<failed_attempts, locked_accounts, last_login, fails_since_ok>>
mwVars == <<settings, rate_limits, suspicious_ips, blocked_ips, whitelisted_ips,
            admitted, last_response>>
priceVars == <<price_lists, pricing>>
couponVars == <<coupon, validation, workers, coupon_uses>>
cartVars == <<products, cart_items, cart_ops, cart_result>>
cacheVars == <<best_selling, bs_requests>>
otherVars == <<importer, honeypot, order_request>>
shopVars == <<couponVars, cartVars, cacheVars, otherVars>>
baseVars == <<now, ticks, requests, loginVars, mwVars, priceVars>>
vars == <<baseVars, shopVars>>

----------------------------------------------------------------------------
(* Bounds of the model *)

\* number of clock advances explored by the login model
MaxTicksLogin == 2

\* Settings.MAX_LOGIN_ATTEMPTS (config.py:27, default 5, read from the
\* environment); the model runs a small configuration.
MAX_LOGIN_ATTEMPTS == 3

\* number of clock advances explored by the rate-limit and block-list models
MaxTicksRate == 2

MaxTicksBlock == 2

\* number of requests explored by the rate-limit and block-list models
MaxRequestsRate == 4

MaxRequestsBlock == 8

\* number of requests and clock advances explored by the model of single
\* dispatches
MaxRequestsAny == 2

MaxTicksAny == 1

\* the highest price and the longest table of price lists explored
MaxPrice == 2

MaxPriceLists == 2

\* the highest order total of the coupon model
MaxOrderTotal == 2

\* concurrent requests and the highest max_uses of the coupon-race model
MaxWorkers == 3

MaxUses == 2

\* the highest quantity a cart request asks for, and the number of cart
\* requests explored
MaxQuantity == 2

MaxCartOps == 3

\* the number of best-selling requests explored
MaxBsRequests == 3

\* form submissions and clock advances of the honeypot model
MaxSubmissions == 4
MaxTicksHoneypot == 2

\* data rows of an imported CSV file
MaxRows == 3

\* the batch_size of an import is 1..MaxBatchSize
MaxBatchSize == 2

\* Settings.RATE_LIMIT_PER_MINUTE, RATE_LIMIT_PER_HOUR,
\* RATE_LIMIT_LOGIN_PER_MINUTE, RATE_LIMIT_LOGIN_PER_HOUR (config.py:23-26,
\* defaults 60, 1000, 5, 20, read from the environment); the model runs a
\* small configuration.
RATE_LIMIT_PER_MINUTE == 2

RATE_LIMIT_PER_HOUR == 3

RATE_LIMIT_LOGIN_PER_MINUTE == 1

RATE_LIMIT_LOGIN_PER_HOUR == 2

(* Program constants *)

\* timedelta(minutes=1), seconds
MINUTE == 60

\* _is_ip_blocked: suspicious_ips.get(ip, 0) >= 10
AUTO_BLOCK_SCORE == 10

\* _is_ip_blocked: duration_seconds=86400
AUTO_BLOCK_SECONDS == 86400

\* Settings.ACCOUNT_LOCKOUT_DURATION, seconds
ACCOUNT_LOCKOUT_DURATION == 900

\* timedelta(hours=1), seconds
HOUR == 3600

\* timedelta(hours=24), in seconds
DAY == 86400

Identifiers == {"alice", "bob"}

\* clock advances offered to the login model: they reach lock ages of exactly
\* 900 s and 901 s and attempt ages of exactly 3599 s and 3600 s
LoginSteps == {1, ACCOUNT_LOCKOUT_DURATION, HOUR - 1}

\* clock advances offered to the rate-limit model: they reach request ages of
\* exactly 59 s, 60 s, 3599 s and 3600 s
RateSteps == {MINUTE - 1, MINUTE, HOUR - MINUTE}

\* clock advances offered to the block-list model: they reach block ages of
\* exactly 86399 s and 86400 s
BlockSteps == {1, AUTO_BLOCK_SECONDS - 1}

----------------------------------------------------------------------------
(* Python dict helpers *)

DictSet(d, k, v) == [x \in (DOMAIN d) \cup {k} |-> IF x = k THEN v ELSE d[x]]

DictDel(d, k) == [x \in (DOMAIN d) \ {k} |-> d[x]]

\* defaultdict(list).__getitem__ without the insertion side effect
DictGetList(d, k) == IF k \in DOMAIN d THEN d[k] ELSE <<>>

\* [t for t in list if now - t < window]
RECURSIVE KeepRecent(_, _, _)
KeepRecent(list, t, window) ==
    IF list = <<>> THEN <<>>
    ELSE IF t - Head(list) < window
         THEN <<Head(list)>> \o KeepRecent(Tail(list), t, window)
         ELSE KeepRecent(Tail(list), t, window)

----------------------------------------------------------------------------
(* LoginAttemptTracker: each operator maps a tracker [failed, locked] to the
   tracker after the call *)

Tracker(f, l) == [failed |-> f, locked |-> l]

record_failed_attempt(tr, identifier, t) ==
    LET cleaned == KeepRecent(DictGetList(tr.failed, identifier), t, HOUR)
        appended == Append(cleaned, t)
    IN  Tracker(DictSet(tr.failed, identifier, appended),
                IF Len(appended) >= MAX_LOGIN_ATTEMPTS
                THEN DictSet(tr.locked, identifier, t)
                ELSE tr.locked)

\* mutant: the successful login forgets to drop the failed attempts
record_successful_login_keeps(tr, identifier) ==
    Tracker(tr.failed, DictDel(tr.locked, identifier))

record_successful_login(tr, identifier) ==
    Tracker(DictDel(tr.failed, identifier), DictDel(tr.locked, identifier))

\* mutant: the lockout ends one second early (>= for >)
is_locked_result_early(tr, identifier, t) ==
    IF identifier \notin DOMAIN tr.locked THEN FALSE
    ELSE IF t - tr.locked[identifier] >= ACCOUNT_LOCKOUT_DURATION THEN FALSE
    ELSE TRUE

\* the bool is_locked returns
is_locked_result(tr, identifier, t) ==
    IF identifier \notin DOMAIN tr.locked THEN FALSE
    ELSE IF t - tr.locked[identifier] > ACCOUNT_LOCKOUT_DURATION THEN FALSE
    ELSE TRUE

\* mutant: an expired lock is dropped but the attempt history is kept
is_locked_effect_keeps(tr, identifier, t) ==
    IF identifier \notin DOMAIN tr.locked THEN tr
    ELSE IF t - tr.locked[identifier] > ACCOUNT_LOCKOUT_DURATION
         THEN Tracker(tr.failed, DictDel(tr.locked, identifier))
         ELSE tr

\* the tracker is_locked leaves behind
is_locked_effect(tr, identifier, t) ==
    IF identifier \notin DOMAIN tr.locked THEN tr
    ELSE IF t - tr.locked[identifier] > ACCOUNT_LOCKOUT_DURATION
         THEN Tracker(DictDel(tr.failed, identifier), DictDel(tr.locked, identifier))
         ELSE tr


----------------------------------------------------------------------------
(* SecurityMiddleware and IPBlockService *)

\* Settings fields the middleware reads, with the defaults of config.py
DefaultSettings ==
    [RATE_LIMIT_ENABLED |-> TRUE, AUTO_BLOCK_ENABLED |-> FALSE,
     ENABLE_HSTS |-> TRUE, ENABLE_CSP |-> TRUE]

IPs == {"127.0.0.1", "10.0.0.7"}

\* _is_ip_whitelisted's literal list
LOCALHOST == {"127.0.0.1", "localhost", "::1"}

\* RateLimitEntry()
RateLimitEntry ==
    [minute_requests |-> <<>>, hour_requests |-> <<>>,
     login_minute_requests |-> <<>>, login_hour_requests |-> <<>>]

\* defaultdict(RateLimitEntry).__getitem__
EntryOf(d, ip) == IF ip \in DOMAIN d THEN d[ip] ELSE RateLimitEntry

\* suspicious_ips.get(ip, 0)
ScoreOf(d, ip) == IF ip \in DOMAIN d THEN d[ip] ELSE 0

\* suspicious_ips[ip] += n
AddScore(d, ip, n) == DictSet(d, ip, ScoreOf(d, ip) + n)

\* mutant: a NULL blocked_until is taken for an expired block
is_ip_blocked_null_expired(db, ip_address, t) ==
    /\ ip_address \in DOMAIN db
    /\ db[ip_address].is_active
    /\ \E u \in db[ip_address].blocked_until : u > t

\* IPBlockService.is_ip_blocked: a row for the address that is active and whose
\* blocked_until is NULL (the empty set here) or later than now
is_ip_blocked(db, ip_address, t) ==
    /\ ip_address \in DOMAIN db
    /\ db[ip_address].is_active
    /\ \/ db[ip_address].blocked_until = {}
       \/ \E u \in db[ip_address].blocked_until : u > t

\* blocked_until of block_ip: now + duration, or NULL when duration is falsy
BlockedUntil(t, duration_seconds) ==
    IF duration_seconds # 0 THEN {t + duration_seconds} ELSE {}

\* IPBlockService.block_ip: update the address's row or create it
block_ip(db, ip_address, t, duration_seconds, blocked_by, violation_count) ==
    IF ip_address \in DOMAIN db
    THEN DictSet(db, ip_address,
                 [is_active |-> TRUE,
                  blocked_until |-> BlockedUntil(t, duration_seconds),
                  blocked_by |-> blocked_by,
                  violation_count |->
                      db[ip_address].violation_count + violation_count])
    ELSE DictSet(db, ip_address,
                 [is_active |-> TRUE,
                  blocked_until |-> BlockedUntil(t, duration_seconds),
                  blocked_by |-> blocked_by,
                  violation_count |-> violation_count])

\* IPBlockService.unblock_ip
unblock_ip(db, ip_address) ==
    IF ip_address \in DOMAIN db
    THEN DictSet(db, ip_address, [db[ip_address] EXCEPT !.is_active = FALSE])
    ELSE db

\* _is_ip_blocked: whether the auto-block branch is taken
AutoBlocks(db, ip, t) ==
    /\ ~is_ip_blocked(db, ip, t)
    /\ settings.AUTO_BLOCK_ENABLED
    /\ ScoreOf(suspicious_ips, ip) >= AUTO_BLOCK_SCORE

\* _is_ip_blocked: the bool it returns
IsIpBlocked(db, ip, t) == is_ip_blocked(db, ip, t) \/ AutoBlocks(db, ip, t)

\* _is_ip_blocked: the table it leaves behind
IsIpBlockedEffect(db, ip, t) ==
    IF AutoBlocks(db, ip, t)
    THEN block_ip(db, ip, t, AUTO_BLOCK_SECONDS, "auto", suspicious_ips[ip])
    ELSE db

\* _is_ip_whitelisted
IsIpWhitelisted(ip) == ip \in LOCALHOST \/ ip \in whitelisted_ips

\* mutant: the general limits are compared with > for >=
CheckRateLimit_general_gt(entry, is_login, t) ==
    LET e1 == [entry EXCEPT
                 !.minute_requests = KeepRecent(@, t, MINUTE),
                 !.hour_requests = KeepRecent(@, t, HOUR)]
        e2 == IF is_login
              THEN [e1 EXCEPT
                      !.login_minute_requests = KeepRecent(@, t, MINUTE),
                      !.login_hour_requests = KeepRecent(@, t, HOUR)]
              ELSE e1
        login_full ==
            \/ Len(e2.login_minute_requests) >= RATE_LIMIT_LOGIN_PER_MINUTE
            \/ Len(e2.login_hour_requests) >= RATE_LIMIT_LOGIN_PER_HOUR
        e3 == IF is_login
              THEN [e2 EXCEPT
                      !.login_minute_requests = Append(@, t),
                      !.login_hour_requests = Append(@, t)]
              ELSE e2
        full ==
            \/ Len(e3.minute_requests) > RATE_LIMIT_PER_MINUTE
            \/ Len(e3.hour_requests) > RATE_LIMIT_PER_HOUR
    IN  IF is_login /\ login_full THEN [ok |-> FALSE, entry |-> e2]
        ELSE IF full THEN [ok |-> FALSE, entry |-> e3]
        ELSE [ok |-> TRUE,
              entry |-> [e3 EXCEPT !.minute_requests = Append(@, t),
                                   !.hour_requests = Append(@, t)]]

\* mutant: the login limits are compared with > for >=
CheckRateLimit_login_gt(entry, is_login, t) ==
    LET e1 == [entry EXCEPT
                 !.minute_requests = KeepRecent(@, t, MINUTE),
                 !.hour_requests = KeepRecent(@, t, HOUR)]
        e2 == IF is_login
              THEN [e1 EXCEPT
                      !.login_minute_requests = KeepRecent(@, t, MINUTE),
                      !.login_hour_requests = KeepRecent(@, t, HOUR)]
              ELSE e1
        login_full ==
            \/ Len(e2.login_minute_requests) > RATE_LIMIT_LOGIN_PER_MINUTE
            \/ Len(e2.login_hour_requests) > RATE_LIMIT_LOGIN_PER_HOUR
        e3 == IF is_login
              THEN [e2 EXCEPT
                      !.login_minute_requests = Append(@, t),
                      !.login_hour_requests = Append(@, t)]
              ELSE e2
        full ==
            \/ Len(e3.minute_requests) >= RATE_LIMIT_PER_MINUTE
            \/ Len(e3.hour_requests) >= RATE_LIMIT_PER_HOUR
    IN  IF is_login /\ login_full THEN [ok |-> FALSE, entry |-> e2]
        ELSE IF full THEN [ok |-> FALSE, entry |-> e3]
        ELSE [ok |-> TRUE,
              entry |-> [e3 EXCEPT !.minute_requests = Append(@, t),
                                   !.hour_requests = Append(@, t)]]

\* _check_rate_limit on one RateLimitEntry: [ok, entry]; is_login is
\* "/auth/login" in path or "/auth/register" in path
CheckRateLimit(entry, is_login, t) ==
    LET e1 == [entry EXCEPT
                 !.minute_requests = KeepRecent(@, t, MINUTE),
                 !.hour_requests = KeepRecent(@, t, HOUR)]
        e2 == IF is_login
              THEN [e1 EXCEPT
                      !.login_minute_requests = KeepRecent(@, t, MINUTE),
                      !.login_hour_requests = KeepRecent(@, t, HOUR)]
              ELSE e1
        login_full ==
            \/ Len(e2.login_minute_requests) >= RATE_LIMIT_LOGIN_PER_MINUTE
            \/ Len(e2.login_hour_requests) >= RATE_LIMIT_LOGIN_PER_HOUR
        e3 == IF is_login
              THEN [e2 EXCEPT
                      !.login_minute_requests = Append(@, t),
                      !.login_hour_requests = Append(@, t)]
              ELSE e2
        full ==
            \/ Len(e3.minute_requests) >= RATE_LIMIT_PER_MINUTE
            \/ Len(e3.hour_requests) >= RATE_LIMIT_PER_HOUR
    IN  IF is_login /\ login_full THEN [ok |-> FALSE, entry |-> e2]
        ELSE IF full THEN [ok |-> FALSE, entry |-> e3]
        ELSE [ok |-> TRUE,
              entry |-> [e3 EXCEPT !.minute_requests = Append(@, t),
                                   !.hour_requests = Append(@, t)]]

\* headers a JSONResponse built by the middleware carries
JsonHeaders == {"content-type", "content-length"}

\* _add_security_headers
AddSecurityHeaders(headers) ==
    headers
      \cup {"X-Content-Type-Options", "X-XSS-Protection", "X-Frame-Options",
            "Referrer-Policy", "Permissions-Policy"}
      \cup (IF settings.ENABLE_HSTS THEN {"Strict-Transport-Security"} ELSE {})
      \cup (IF settings.ENABLE_CSP THEN {"Content-Security-Policy"} ELSE {})

\* a request as dispatch sees it: the client address, whether the path
\* contains "/admin", whether it contains "/auth/login" or "/auth/register",
\* whether content-length exceeds MAX_REQUEST_SIZE, whether the query string
\* matches an SQL-injection pattern, an XSS pattern; and what call_next does
Requests ==
    [ip : IPs, admin : BOOLEAN, login : BOOLEAN, too_large : BOOLEAN,
     sqli : BOOLEAN, xss : BOOLEAN, app : {"response", "exception"}]

\* the record kept of a finished dispatch: status 0 stands for an exception
\* that propagated out of dispatch; rejected_by names the check that answered
\* ("none": the request was passed to call_next)
Answer(req, status, rejected_by, headers) ==
    [ip |-> req.ip, login |-> req.login, status |-> status,
     rejected_by |-> rejected_by, headers |-> headers,
     flip |-> ~last_response.flip]

\* SecurityMiddleware.dispatch
dispatch(req) ==
    LET ip == req.ip
        limited == settings.RATE_LIMIT_ENABLED
        rl == IF limited
              THEN CheckRateLimit(EntryOf(rate_limits, ip), req.login, now)
              ELSE [ok |-> TRUE, entry |-> RateLimitEntry]
        rate_limits1 == IF limited THEN DictSet(rate_limits, ip, rl.entry)
                        ELSE rate_limits
    IN  IF IsIpBlocked(blocked_ips, ip, now)
        THEN /\ blocked_ips' = IsIpBlockedEffect(blocked_ips, ip, now)
             /\ last_response' = Answer(req, 403, "block", JsonHeaders)
             /\ UNCHANGED <<rate_limits, suspicious_ips, admitted>>
        ELSE IF req.admin /\ ~IsIpWhitelisted(ip)
        THEN /\ suspicious_ips' = AddScore(suspicious_ips, ip, 1)
             /\ last_response' = Answer(req, 403, "whitelist", JsonHeaders)
             /\ UNCHANGED <<rate_limits, blocked_ips, admitted>>
        ELSE IF ~rl.ok
        THEN /\ rate_limits' = rate_limits1
             /\ suspicious_ips' = AddScore(suspicious_ips, ip, 1)
             /\ last_response' = Answer(req, 429, "rate_limit", JsonHeaders)
             /\ UNCHANGED <<blocked_ips, admitted>>
        ELSE /\ rate_limits' = rate_limits1
             /\ admitted' = [admitted EXCEPT
                               ![ip] = Append(@, [t |-> now, login |-> req.login])]
             /\ UNCHANGED blocked_ips
             /\ IF req.too_large
                THEN /\ last_response' = Answer(req, 413, "size", JsonHeaders)
                     /\ UNCHANGED suspicious_ips
                ELSE IF req.sqli \/ req.xss
                THEN /\ suspicious_ips' = AddScore(suspicious_ips, ip, 3)
                     /\ last_response' =
                          Answer(req, 400, IF req.sqli THEN "sqli" ELSE "xss",
                                 JsonHeaders)
                ELSE /\ UNCHANGED suspicious_ips
                     /\ last_response' =
                          IF req.app = "response"
                          THEN Answer(req, 200, "none",
                                      AddSecurityHeaders({"content-type"}))
                          ELSE Answer(req, 0, "none", {})

\* a request of the set reqs arrives
DispatchOf(reqs, max_requests) ==
    /\ requests < max_requests
    /\ requests' = requests + 1
    /\ \E req \in reqs : dispatch(req)
    /\ UNCHANGED <<now, ticks, settings, whitelisted_ips, loginVars, priceVars, shopVars>>

\* the requests of the rate-limit model: any address and path, a body within
\* MAX_REQUEST_SIZE and a query string that matches no attack pattern
RateRequests ==
    {r \in Requests : ~r.too_large /\ ~r.sqli /\ ~r.xss /\ r.app = "response"}

DispatchRate == DispatchOf(RateRequests, MaxRequestsRate)

\* the requests of the block-list model: paths other than the login
\* endpoints, a body within MAX_REQUEST_SIZE; from 10.0.0.7 any path and a
\* query string that matches an SQL-injection pattern or none, from 127.0.0.1
\* plain requests
BlockRequests ==
    {r \in Requests :
        /\ ~r.login /\ ~r.too_large /\ ~r.xss /\ r.app = "response"
        /\ r.ip = "127.0.0.1" => (~r.sqli /\ ~r.admin)}

DispatchBlock == DispatchOf(BlockRequests, MaxRequestsBlock)

\* any request at all
DispatchAny == DispatchOf(Requests, MaxRequestsAny)

\* the requests of the last hour (strictly less than an hour old)
RECURSIVE KeepRecentReq(_, _)
KeepRecentReq(list, t) ==
    IF list = <<>> THEN <<>>
    ELSE IF t - Head(list).t < HOUR
         THEN <<Head(list)>> \o KeepRecentReq(Tail(list), t)
         ELSE KeepRecentReq(Tail(list), t)

\* the clock advances between requests, by one of steps
TickOf(steps, max_ticks) ==
    /\ ticks < max_ticks
    /\ \E d \in steps :
        /\ now' = now + d
        /\ admitted' = [ip \in IPs |-> KeepRecentReq(admitted[ip], now + d)]
    /\ ticks' = ticks + 1
    /\ UNCHANGED <<requests, settings, rate_limits, suspicious_ips, blocked_ips,
                   whitelisted_ips, last_response, loginVars, priceVars, shopVars>>

TickRate == TickOf(RateSteps, MaxTicksRate)

TickBlock == TickOf(BlockSteps, MaxTicksBlock)

TickAny == TickOf(RateSteps, MaxTicksAny)

\* SecurityMiddleware(app) as constructed
MiddlewareConstructed ==
    /\ rate_limits = <<>>
    /\ suspicious_ips = <<>>
    /\ admitted = [ip \in IPs |-> <<>>]
    /\ last_response = [ip |-> "127.0.0.1", login |-> FALSE, status |-> 0,
                        rejected_by |-> "none", headers |-> {}, flip |-> FALSE]

----------------------------------------------------------------------------
(* /auth/login and /auth/refresh *)

\* what AuthService.login_user / refresh_token does with the credentials:
\* returns a token, raises HTTPException (401 or 400), or raises another error
Outcomes == {"token", "http_exception", "other_error"}

Cap(n) == IF n > MAX_LOGIN_ATTEMPTS THEN MAX_LOGIN_ATTEMPTS ELSE n

\* wiped: how many recorded attempts a successful login removed
Response(id, kind, status, checked, wiped) ==
    [id |-> id, kind |-> kind, status |-> status, checked |-> checked,
     wiped |-> wiped, flip |-> ~last_login.flip]

\* the part login and refresh_token share; clears tells whether a token
\* answer calls record_successful_login
AuthRequest(kind, username, outcome, clears) ==
    LET tr0 == Tracker(failed_attempts, locked_accounts)
        locked == is_locked_result(tr0, username, now)
        tr1 == is_locked_effect(tr0, username, now)
    IN  IF locked
        THEN /\ failed_attempts' = tr1.failed
             /\ locked_accounts' = tr1.locked
             /\ last_login' = Response(username, kind, 423, FALSE, 0)
             /\ UNCHANGED fails_since_ok
        ELSE CASE outcome = "token" ->
                   LET tr2 == IF clears THEN record_successful_login(tr1, username)
                              ELSE tr1
                   IN  /\ failed_attempts' = tr2.failed
                       /\ locked_accounts' = tr2.locked
                       /\ last_login' = Response(username, kind, 200, TRUE,
                            IF clears THEN Len(DictGetList(tr1.failed, username))
                            ELSE 0)
                       /\ fails_since_ok' =
                            IF clears THEN [fails_since_ok EXCEPT ![username] = 0]
                            ELSE fails_since_ok
               [] outcome = "http_exception" ->
                   LET tr2 == record_failed_attempt(tr1, username, now)
                   IN  /\ failed_attempts' = tr2.failed
                       /\ locked_accounts' = tr2.locked
                       /\ last_login' = Response(username, kind, 401, TRUE, 0)
                       /\ fails_since_ok' =
                            [fails_since_ok EXCEPT ![username] = Cap(@ + 1)]
               [] OTHER ->
                   /\ failed_attempts' = tr1.failed
                   /\ locked_accounts' = tr1.locked
                   /\ last_login' = Response(username, kind, 500, TRUE, 0)
                   /\ UNCHANGED fails_since_ok

login ==
    \E username \in Identifiers, outcome \in Outcomes :
        /\ AuthRequest("login", username, outcome, TRUE)
        /\ UNCHANGED <<now, ticks, requests, mwVars, priceVars, shopVars>>

refresh_token ==
    \E username \in Identifiers, outcome \in Outcomes :
        /\ AuthRequest("refresh", username, outcome, FALSE)
        /\ UNCHANGED <<now, ticks, requests, mwVars, priceVars, shopVars>>

\* the clock advances between requests
TickLogin ==
    /\ ticks < MaxTicksLogin
    /\ \E d \in LoginSteps : now' = now + d
    /\ ticks' = ticks + 1
    /\ UNCHANGED <<requests, loginVars, mwVars, priceVars, shopVars>>

----------------------------------------------------------------------------
(* app/services/price_calculator.py *)

\* an Optional value: {} for None, {x} for x
Optional(S) == {{}} \cup {{x} : x \in S}

SeqsUpTo(S, n) == UNION {[1..k -> S] : k \in 0..n}

\* prices, in whole units
Prices == 0..MaxPrice

\* Role.slug of two of the default roles
Roles == {"wholesale", "vip-customer"}

\* a row of price_lists, with the first row of price_list_items that it has
\* for the product being priced, if any
PriceListRows == [role_filter : Roles, is_active : BOOLEAN, item : Optional(Prices)]

PriceListTables == SeqsUpTo(PriceListRows, MaxPriceLists)

\* Product: price and the nullable offer_price
Products == [price : Prices \ {0}, offer_price : Optional(Prices)]

\* User.roles, a list of distinct roles
RoleLists ==
    {r \in SeqsUpTo(Roles, Cardinality(Roles)) :
        \A i, j \in 1..Len(r) : r[i] = r[j] => i = j}

\* the user argument: None or a User
Users == Optional([roles : RoleLists])

\* Query.first()
first(rows) == IF rows = <<>> THEN {} ELSE {Head(rows)}

Min(a, b) == IF a <= b THEN a ELSE b

\* BasePricingStrategy.calculate_price
BasePricingStrategy(product, user, db) == product.price

\* the loop over user.roles of PriceListPricingStrategy.calculate_price
RECURSIVE RoleLoop(_, _, _)
RoleLoop(user_roles, db, applicable_price) ==
    IF user_roles = <<>>
    THEN applicable_price
    ELSE LET price_list ==
                 first(SelectSeq(db, LAMBDA pl :
                           pl.role_filter = Head(user_roles) /\ pl.is_active))
             price_list_item == UNION {pl.item : pl \in price_list}
         IN IF price_list_item # {}
            THEN CHOOSE p \in price_list_item : TRUE
            ELSE RoleLoop(Tail(user_roles), db, applicable_price)

\* mutant: the offer price is not applied to a price-list price
PriceListPricingStrategy_list_wins(product, user, db) ==
    IF user = {} \/ db = {}
    THEN product.price
    ELSE LET u == CHOOSE x \in user : TRUE
             session == CHOOSE x \in db : TRUE
             applicable_price == RoleLoop(u.roles, session, product.price)
         IN IF /\ applicable_price = product.price
               /\ \E o \in product.offer_price : o # 0 /\ o > 0
            THEN Min(applicable_price, CHOOSE o \in product.offer_price : TRUE)
            ELSE applicable_price

\* PriceListPricingStrategy.calculate_price; db is None ({}) or a session on
\* the table price_lists
PriceListPricingStrategy(product, user, db) ==
    IF user = {} \/ db = {}
    THEN product.price
    ELSE LET u == CHOOSE x \in user : TRUE
             session == CHOOSE x \in db : TRUE
             applicable_price == RoleLoop(u.roles, session, product.price)
         IN IF \E o \in product.offer_price : o # 0 /\ o > 0
            THEN Min(applicable_price, CHOOSE o \in product.offer_price : TRUE)
            ELSE applicable_price

\* PriceCalculator.get_product_price
get_product_price(product, user, db) ==
    IF user # {} /\ db # {}
    THEN PriceListPricingStrategy(product, user, db)
    ELSE BasePricingStrategy(product, user, db)

\* the db argument of the call
Session == IF pricing.has_db THEN {price_lists} ELSE {}

\* a caller applies PriceCalculator.get_product_price
GetProductPrice ==
    /\ pricing.via = "none"
    /\ pricing' = [pricing EXCEPT
                     !.via = "get_product_price",
                     !.result = get_product_price(pricing.product, pricing.user, Session)]
    /\ UNCHANGED <<now, ticks, requests, loginVars, mwVars, price_lists, shopVars>>

\* a caller applies PriceListPricingStrategy.calculate_price
CalculatePrice ==
    /\ pricing.via = "none"
    /\ pricing' = [pricing EXCEPT
                     !.via = "calculate_price",
                     !.result = PriceListPricingStrategy(pricing.product, pricing.user, Session)]
    /\ UNCHANGED <<now, ticks, requests, loginVars, mwVars, price_lists, shopVars>>

\* no price list and no price calculation
NoPricing ==
    /\ price_lists = <<>>
    /\ pricing = [product |-> [price |-> 1, offer_price |-> {}], user |-> {},
                  has_db |-> FALSE, via |-> "none", result |-> 0]

----------------------------------------------------------------------------
(* app/models/coupon.py, app/services/coupon.py *)

\* the stored code of the coupon; codes a client may send
CouponCode == "SAVE10"

Codes == {"SAVE10", "save10", "OTHER"}

\* str.upper on Codes
Upper(code) == IF code = "save10" THEN "SAVE10" ELSE code

UserIds == {1, 2}

\* discount_value: a small, a middling and an over-100 value
DiscountValues == {1, 50, 150}

OrderTotals == 0..MaxOrderTotal

\* rows of table coupons as the create and update endpoints can leave them;
\* assigned_users is the set of user ids of the relationship
CouponRows ==
    [code : {CouponCode},
     discount_type : {"percentage", "fixed"},
     discount_value : DiscountValues,
     min_order_amount : Optional({0, MaxOrderTotal}),
     max_uses : Optional({1}),
     current_uses : 0..1,
     max_uses_per_user : Optional({1}),
     is_active : BOOLEAN,
     valid_from : Optional({1}),
     valid_to : Optional({2}),
     assigned_users : {{}, {1}}]

\* what a call did: returned a value or raised
Returned(is_valid, discount_amount, c) ==
    [kind |-> "returned", is_valid |-> is_valid,
     discount_amount |-> discount_amount, coupon |-> c]

Raised(error) ==
    [kind |-> error, is_valid |-> FALSE, discount_amount |-> {}, coupon |-> {}]

NotCalled ==
    [kind |-> "none", is_valid |-> FALSE, discount_amount |-> {}, coupon |-> {}]

\* Coupon.is_valid at time t
is_valid(c, t) ==
    /\ c.is_active
    /\ ~(\E f \in c.valid_from : t < f)
    /\ ~(\E u \in c.valid_to : t > u)
    /\ ~(\E m \in c.max_uses : m # 0 /\ c.current_uses >= m)

\* Coupon.can_be_used_by_user: "true", "false", or the AttributeError of
\* Order.coupon_id, an attribute that the Order model does not have
can_be_used_by_user(c, user_id) ==
    IF c.assigned_users # {} /\ user_id \notin c.assigned_users
    THEN "false"
    ELSE IF \E m \in c.max_uses_per_user : m # 0
         THEN "AttributeError"
         ELSE "true"

\* Coupon.calculate_discount, the amount in hundredths of the unit of
\* order_total; comparing a float with None raises TypeError
calculate_discount(c, order_total) ==
    IF c.min_order_amount = {}
    THEN Raised("TypeError")
    ELSE IF \E a \in c.min_order_amount : order_total < a
         THEN Returned(FALSE, {0}, {})
         ELSE LET discount == IF c.discount_type = "percentage"
                              THEN order_total * c.discount_value
                              ELSE c.discount_value * 100
              IN Returned(FALSE, {Min(discount, order_total * 100)}, {})

\* CouponService.get_by_code
get_by_code(db, code) == {c \in db : c.code = Upper(code)}

\* CouponService.validate_coupon at time t
validate_coupon(db, code, user_id, order_total, t) ==
    LET found == get_by_code(db, code)
    IN IF found = {}
       THEN Returned(FALSE, {}, {})
       ELSE LET c == CHOOSE x \in found : TRUE
                can == can_be_used_by_user(c, user_id)
            IN IF ~is_valid(c, t) THEN Returned(FALSE, {}, {})
               ELSE IF can = "AttributeError" THEN Raised("AttributeError")
               ELSE IF can = "false" THEN Returned(FALSE, {}, {})
               ELSE IF c.min_order_amount = {} THEN Raised("TypeError")
               ELSE IF \E a \in c.min_order_amount : order_total < a
                    THEN Returned(FALSE, {}, {})
               ELSE LET d == calculate_discount(c, order_total)
                    IN Returned(TRUE, d.discount_amount, {c})

\* a caller applies CouponService.validate_coupon
ValidateCoupon ==
    /\ validation.via = "none"
    /\ validation' = [validation EXCEPT
                        !.via = "validate_coupon",
                        !.result = validate_coupon(coupon, validation.code,
                                       validation.user_id, validation.order_total, now)]
    /\ UNCHANGED <<baseVars, otherVars, cartVars, cacheVars, coupon, workers, coupon_uses>>

\* a caller applies Coupon.calculate_discount to the coupon
CalculateDiscount ==
    /\ validation.via = "none"
    /\ \E c \in coupon :
        validation' = [validation EXCEPT
                         !.via = "calculate_discount",
                         !.result = calculate_discount(c, validation.order_total)]
    /\ UNCHANGED <<baseVars, otherVars, cartVars, cacheVars, coupon, workers, coupon_uses>>

\* concurrent requests, each with a session of its own
Workers == 1..MaxWorkers

\* request w calls validate_coupon; its session now holds the Coupon object
WorkerValidate(w) ==
    /\ workers[w].pc = "start"
    /\ LET r == validate_coupon(coupon, CouponCode, 1, MaxOrderTotal, now)
       IN workers' = [workers EXCEPT ![w] =
              IF r.kind = "returned" /\ r.is_valid
              THEN [pc |-> "valid", loaded |-> r.coupon]
              ELSE [pc |-> "done", loaded |-> {}]]
    /\ UNCHANGED <<baseVars, otherVars, cartVars, cacheVars, coupon, validation, coupon_uses>>

\* request w calls apply_coupon_to_order with the object validate_coupon gave
\* it: current_uses of that object plus one is written and committed
WorkerApply(w) ==
    /\ workers[w].pc = "valid"
    /\ \E mine \in workers[w].loaded :
        coupon' = {[c EXCEPT !.current_uses = mine.current_uses + 1] : c \in coupon}
    /\ coupon_uses' = coupon_uses + 1
    /\ workers' = [workers EXCEPT ![w] = [pc |-> "done", loaded |-> {}]]
    /\ UNCHANGED <<baseVars, otherVars, cartVars, cacheVars, validation>>

\* no coupon, no validation, no request
NoCoupons ==
    /\ coupon = {}
    /\ validation = [code |-> "OTHER", user_id |-> 1, order_total |-> 0,
                     via |-> "none", result |-> NotCalled]
    /\ workers = [w \in Workers |-> [pc |-> "done", loaded |-> {}]]
    /\ coupon_uses = 0

----------------------------------------------------------------------------
(* app/services/cart.py, app/services/product_validator.py *)

\* product ids a request may name; no product has the last one
ProductIds == {1, 2, 3}

\* quantities a request may carry (CartItemCreate.quantity is any int)
Quantities == {-1} \cup 1..MaxQuantity

\* rows of table products, as far as the validators read them
ProductRows ==
    [stock : {0, MaxQuantity}, is_always_in_stock : BOOLEAN,
     max_per_buy : Optional({0, MaxQuantity}), is_active : BOOLEAN]

\* ProductActiveValidationStrategy, StockValidationStrategy and
\* PurchaseLimitValidationStrategy: TRUE when validate raises the 400
NotActive(product, quantity) == ~product.is_active

NoStock(product, quantity) ==
    ~product.is_always_in_stock /\ product.stock < quantity

OverLimit(product, quantity) ==
    \E m \in product.max_per_buy : m # 0 /\ quantity > m

\* ProductValidator.validate_for_cart: 200 when the chain passes, else 400
validate_for_cart(product, quantity) ==
    IF \/ NotActive(product, quantity)
       \/ NoStock(product, quantity)
       \/ OverLimit(product, quantity)
    THEN 400 ELSE 200

\* mutant: only the added quantity is validated, not the new total
validate_can_add_quantity_added(product, current_quantity, additional_quantity) ==
    IF \/ NoStock(product, additional_quantity)
       \/ OverLimit(product, additional_quantity)
    THEN 400 ELSE 200

\* ProductValidator.validate_can_add_quantity
validate_can_add_quantity(product, current_quantity, additional_quantity) ==
    LET new_total == current_quantity + additional_quantity
    IN IF NoStock(product, new_total) \/ OverLimit(product, new_total)
       THEN 400 ELSE 200

\* the positions of the rows of the user for the product
ItemsOf(items, user_id, product_id) ==
    {i \in 1..Len(items) :
        items[i].user_id = user_id /\ items[i].product_id = product_id}

\* the position Query.first() gives among positions
FirstOf(positions) == CHOOSE i \in positions : \A j \in positions : i <= j

\* mutant: a new row is added whether or not the user has the product
AddedTo_always_new(items, user_id, product_id, quantity, new_id) ==
    Append(items, [id |-> new_id, user_id |-> user_id,
                   product_id |-> product_id, quantity |-> quantity])

\* the table after lines 46-60 of add_item_to_cart
AddedTo(items, user_id, product_id, quantity, new_id) ==
    LET existing == ItemsOf(items, user_id, product_id)
    IN IF existing # {}
       THEN [items EXCEPT ![FirstOf(existing)].quantity = @ + quantity]
       ELSE Append(items, [id |-> new_id, user_id |-> user_id,
                           product_id |-> product_id, quantity |-> quantity])

CartAnswer(op, user_id, product_id, item_id, quantity, status) ==
    [op |-> op, user_id |-> user_id, product_id |-> product_id,
     item_id |-> item_id, quantity |-> quantity, status |-> status,
     flip |-> ~cart_result.flip]

\* POST /cart/items
add_item_to_cart ==
    \E user_id \in UserIds, product_id \in ProductIds, quantity \in Quantities :
        LET existing == ItemsOf(cart_items, user_id, product_id)
            status ==
                IF product_id \notin DOMAIN products THEN 404
                ELSE IF validate_for_cart(products[product_id], quantity) = 400 THEN 400
                ELSE IF existing = {} THEN 201
                ELSE IF validate_can_add_quantity(products[product_id],
                            cart_items[FirstOf(existing)].quantity, quantity) = 400
                     THEN 400
                     ELSE 201
        IN /\ cart_items' =
                IF status = 201
                THEN AddedTo(cart_items, user_id, product_id, quantity, cart_ops + 1)
                ELSE cart_items
           /\ cart_result' = CartAnswer("add", user_id, product_id, 0, quantity, status)

\* the positions of the rows with the id that belong to the user
ItemById(items, user_id, item_id) ==
    {i \in 1..Len(items) : items[i].id = item_id /\ items[i].user_id = user_id}

\* PUT /cart/items/{item_id}
update_cart_item ==
    \E user_id \in UserIds, item_id \in 1..MaxCartOps, quantity \in Quantities :
        LET found == ItemById(cart_items, user_id, item_id)
        IN IF found = {}
           THEN /\ cart_result' = CartAnswer("update", user_id, 0, item_id, quantity, 404)
                /\ UNCHANGED cart_items
           ELSE LET i == FirstOf(found)
                    status == validate_for_cart(products[cart_items[i].product_id], quantity)
                IN /\ cart_items' = IF status = 200
                                    THEN [cart_items EXCEPT ![i].quantity = quantity]
                                    ELSE cart_items
                   /\ cart_result' = CartAnswer("update", user_id,
                                         cart_items[i].product_id, item_id, quantity, status)

\* DELETE /cart/items/{item_id}
remove_item_from_cart ==
    \E user_id \in UserIds, item_id \in 1..MaxCartOps :
        LET found == ItemById(cart_items, user_id, item_id)
        IN IF found = {}
           THEN /\ cart_result' = CartAnswer("remove", user_id, 0, item_id, 0, 404)
                /\ UNCHANGED cart_items
           ELSE /\ cart_items' = SelectSeq(cart_items,
                                    LAMBDA row : row.id # cart_items[FirstOf(found)].id)
                /\ cart_result' = CartAnswer("remove", user_id, 0, item_id, 0, 204)

\* DELETE /cart
clear_cart ==
    \E user_id \in UserIds :
        /\ cart_items' = SelectSeq(cart_items, LAMBDA row : row.user_id # user_id)
        /\ cart_result' = CartAnswer("clear", user_id, 0, 0, 0, 204)

\* one cart request
CartRequest(handler) ==
    /\ cart_ops < MaxCartOps
    /\ cart_ops' = cart_ops + 1
    /\ handler
    /\ UNCHANGED <<baseVars, otherVars, couponVars, cacheVars, products>>

AddItem == CartRequest(add_item_to_cart)

UpdateItem == CartRequest(update_cart_item)

RemoveItem == CartRequest(remove_item_from_cart)

ClearCart == CartRequest(clear_cart)

\* no product, no cart
NoCart ==
    /\ products = <<>>
    /\ cart_items = <<>>
    /\ cart_ops = 0
    /\ cart_result = [op |-> "none", user_id |-> 1, product_id |-> 0, item_id |-> 0,
                      quantity |-> 0, status |-> 0, flip |-> FALSE]

----------------------------------------------------------------------------
(* app/services/best_selling.py *)

\* the limit arguments of the requests: the default and another
Limits == {12, 5}

BsRequests == 1..MaxBsRequests

\* a request not yet made
BsIdle ==
    [kind |-> "none", pc |-> "idle", limit |-> 12, began_after |-> 0,
     ranking |-> {}, keys |-> {}, returned |-> {}]

\* get_best_selling_products, lines 64-92: the cache is read. A hit returns
\* the cached ranking; a miss, or a Redis error, goes on to the database.
\* A ranking is identified by the number of clears begun when it was computed.
GetRead(r) ==
    /\ bs_requests[r].pc = "idle"
    /\ \E limit \in Limits, error \in BOOLEAN :
        LET cached_data == IF best_selling.redis_up /\ ~error
                           THEN best_selling.cache[limit] ELSE {}
        IN bs_requests' = [bs_requests EXCEPT ![r] =
              [BsIdle EXCEPT !.kind = "get", !.limit = limit,
                             !.began_after = best_selling.clears_done,
                             !.pc = IF cached_data # {} THEN "done" ELSE "miss",
                             !.returned = IF cached_data # {}
                                          THEN {[hit |-> TRUE, ranking |-> cached_data]}
                                          ELSE {}]]
    /\ UNCHANGED <<baseVars, otherVars, couponVars, cartVars, best_selling>>

\* lines 94-113: the ranking is computed from the order items
GetQuery(r) ==
    /\ bs_requests[r].pc = "miss"
    /\ bs_requests' = [bs_requests EXCEPT
                         ![r].pc = "queried",
                         ![r].ranking = IF best_selling.has_sales
                                        THEN {best_selling.clears_started} ELSE {}]
    /\ UNCHANGED <<baseVars, otherVars, couponVars, cartVars, best_selling>>

\* lines 115-127: a ranking that is not empty is cached, and returned
GetSet(r) ==
    /\ bs_requests[r].pc = "queried"
    /\ \E error \in BOOLEAN :
        best_selling' =
            IF best_selling.redis_up /\ bs_requests[r].ranking # {} /\ ~error
            THEN [best_selling EXCEPT !.cache[bs_requests[r].limit] = bs_requests[r].ranking]
            ELSE best_selling
    /\ bs_requests' = [bs_requests EXCEPT
                         ![r].pc = "done",
                         ![r].returned = {[hit |-> FALSE, ranking |-> bs_requests[r].ranking]}]
    /\ UNCHANGED <<baseVars, otherVars, couponVars, cartVars>>

\* clear_cache, lines 132-135: the keys are listed; without Redis, False
ClearKeys(r) ==
    /\ bs_requests[r].pc = "idle"
    /\ IF best_selling.redis_up
       THEN /\ bs_requests' = [bs_requests EXCEPT ![r] =
                  [BsIdle EXCEPT !.kind = "clear", !.pc = "listed",
                                 !.keys = {l \in Limits : best_selling.cache[l] # {}}]]
            /\ best_selling' = [best_selling EXCEPT !.clears_started = @ + 1]
       ELSE /\ bs_requests' = [bs_requests EXCEPT ![r] =
                  [BsIdle EXCEPT !.kind = "clear", !.pc = "done",
                                 !.returned = {FALSE}]]
            /\ UNCHANGED best_selling
    /\ UNCHANGED <<baseVars, otherVars, couponVars, cartVars>>

\* lines 136-142: the listed keys are deleted and True is returned; a Redis
\* error returns False
ClearDelete(r) ==
    /\ bs_requests[r].pc = "listed"
    /\ \E error \in BOOLEAN :
        IF error
        THEN /\ bs_requests' = [bs_requests EXCEPT ![r].pc = "done",
                                                   ![r].returned = {FALSE}]
             /\ UNCHANGED best_selling
        ELSE /\ bs_requests' = [bs_requests EXCEPT ![r].pc = "done",
                                                   ![r].returned = {TRUE}]
             /\ best_selling' =
                  [best_selling EXCEPT
                     !.cache = [l \in Limits |->
                                  IF l \in bs_requests[r].keys THEN {} ELSE @[l]],
                     !.clears_done = @ + 1]
    /\ UNCHANGED <<baseVars, otherVars, couponVars, cartVars>>

\* setex: a cached ranking expires after CACHE_TTL
Expire ==
    /\ \E l \in Limits :
        /\ best_selling.cache[l] # {}
        /\ best_selling' = [best_selling EXCEPT !.cache[l] = {}]
    /\ UNCHANGED <<baseVars, otherVars, couponVars, cartVars, bs_requests>>

\* no best-selling request
NoBestSelling ==
    /\ best_selling = [redis_up |-> FALSE, has_sales |-> FALSE,
                       cache |-> [l \in Limits |-> {}],
                       clears_started |-> 0, clears_done |-> 0]
    /\ bs_requests = [r \in BsRequests |-> BsIdle]

----------------------------------------------------------------------------
(* app/services/product.py: ProductService.import_products_from_csv, for a
   UTF-8 file that has the required columns. The categories and brands the
   import creates on the way are not kept: only whether a category name is
   in category_cache, which decides whether the row queries the session. *)

\* the slug cells and the category cells of a file ("" is an empty cell)
Slugs == {"a", "b"}
CategoryNames == {"", "c"}

\* one data row: its category and slug cells, and whether float() accepts its
\* price cell
CsvRows == [category : CategoryNames, price_ok : BOOLEAN, slug : Slugs]

\* enumerate(csv_reader, start=2)
row_num(i) == i + 1

\* the rows of batch, and their slugs
BatchRows(j) == {j.batch[k] : k \in 1..Len(j.batch)}
BatchSlugs(j) == {j.rows[i].slug : i \in BatchRows(j)}

\* db.add_all(batch); db.commit() raises: an earlier failed flush left the
\* session inactive, or the batch breaks the unique index on products.slug
CommitRaises(j) ==
    \/ j.session = "inactive"
    \/ \E k, l \in 1..Len(j.batch) :
          k # l /\ j.rows[j.batch[k]].slug = j.rows[j.batch[l]].slug
    \/ BatchSlugs(j) \cap j.db # {}

\* db.add_all(batch); db.commit(); successful += len(batch)
CommitBatch(j) ==
    [j EXCEPT !.db = @ \cup BatchSlugs(j),
              !.added = @ \cup BatchRows(j),
              !.successful = @ + Len(j.batch)]

\* errors.append(CSVImportError(row=row_num, ...))
RowError(j, i, kind) ==
    [j EXCEPT !.errors = Append(@, [row |-> row_num(i), error |-> kind])]

\* the body of the loop over the rows, for data row i
ProcessRow(j0, i) ==
    LET j == [j0 EXCEPT !.total_rows = @ + 1]
        row == j.rows[i]
        cached == [j EXCEPT !.category_cache = @ \cup {row.category}]
        appended == [cached EXCEPT !.batch = Append(@, i)]
    IN  IF row.category = ""
        THEN RowError(j, i, "ValueError")
        ELSE IF row.category \notin j.category_cache /\ j.session = "inactive"
        THEN RowError(j, i, "Exception")
        ELSE IF ~row.price_ok
        THEN RowError(cached, i, "ValueError")
        ELSE IF j.session = "inactive"
        THEN RowError(cached, i, "Exception")
        ELSE IF row.slug \in j.db
        THEN RowError(cached, i, "ValueError")
        ELSE IF Len(appended.batch) < j.batch_size
        THEN appended
        ELSE IF CommitRaises(appended)
        THEN RowError([appended EXCEPT !.session = "inactive"], i, "Exception")
        ELSE [CommitBatch(appended) EXCEPT !.batch = <<>>]

\* after the loop: the last batch, then the CSVImportResult, or
\* db.rollback() and HTTPException(500)
FinishImport(j) ==
    IF j.batch # <<>> /\ CommitRaises(j)
    THEN [j EXCEPT !.session = "active", !.ended = "500"]
    ELSE LET k == IF j.batch # <<>> THEN CommitBatch(j) ELSE j
         IN [k EXCEPT !.failed = Len(k.errors), !.ended = "result"]

\* the import reads its next row
ImportRow ==
    /\ importer.ended = "running"
    /\ importer.total_rows < Len(importer.rows)
    /\ importer' = ProcessRow(importer, importer.total_rows + 1)
    /\ UNCHANGED <<baseVars, couponVars, cartVars, cacheVars, honeypot, order_request>>

\* the import has read every row
ImportEnd ==
    /\ importer.ended = "running"
    /\ importer.total_rows = Len(importer.rows)
    /\ importer' = FinishImport(importer)
    /\ UNCHANGED <<baseVars, couponVars, cartVars, cacheVars, honeypot, order_request>>

\* the locals of import_products_from_csv when it reaches the loop, for a
\* file, a batch_size and a products table
ImportStarted(rows, batch_size, db) ==
    [rows |-> rows, batch_size |-> batch_size, db |-> db, added |-> {},
     errors |-> <<>>, successful |-> 0, total_rows |-> 0, failed |-> 0,
     category_cache |-> {}, batch |-> <<>>, session |-> "active",
     ended |-> "running"]

\* no import
NoImport == importer = [ImportStarted(<<>>, 1, {}) EXCEPT !.ended = "idle"]

----------------------------------------------------------------------------
(* app/core/honeypot.py *)

\* request.client.host, or "unknown" without request.client
Clients == {"198.51.100.7", "unknown"}

\* the value of a honeypot field of a submitted form: None, or a string
FieldValues == Optional({"", "http://spam.example"})

\* truth of an Optional[str]
Truthy(value) == value # {} /\ value # {""}

\* clock advances offered to the honeypot model: they reach trigger ages of
\* exactly 24 hours and of one second less
HoneypotSteps == {1, DAY - 1, DAY}

\* HoneypotTracker.__init__; defaultdict(list) gives every ip the empty list
HoneypotTracker == [triggered_ips |-> [ip \in Clients |-> <<>>], banned_ips |-> {}]

\* mutant: old triggers are never cleaned
record_trigger_keeps_all(tracker, ip, t) ==
    LET triggers == Append(tracker.triggered_ips[ip], t)
    IN [tracker EXCEPT
          !.triggered_ips[ip] = triggers,
          !.banned_ips = IF Len(triggers) >= 3 THEN @ \cup {ip} ELSE @]

\* HoneypotTracker.record_trigger at time t
record_trigger(tracker, ip, t) ==
    LET triggers == Append(SelectSeq(tracker.triggered_ips[ip],
                                     LAMBDA x : t - x < DAY), t)
    IN [tracker EXCEPT
          !.triggered_ips[ip] = triggers,
          !.banned_ips = IF Len(triggers) >= 3 THEN @ \cup {ip} ELSE @]

\* HoneypotTracker.is_banned
is_banned(tracker, ip) == ip \in tracker.banned_ips

\* HoneypotMixin.validate_honeypot for a form from ip: the tracker afterwards
\* and the status (200 when it raises nothing)
validate_honeypot(tracker, ip, website, company_name, t) ==
    IF Truthy(website) \/ Truthy(company_name)
    THEN [tracker |-> record_trigger(tracker, ip, t), status |-> 400]
    ELSE IF is_banned(tracker, ip)
    THEN [tracker |-> tracker, status |-> 403]
    ELSE [tracker |-> tracker, status |-> 200]

\* a form is submitted and validated
SubmitForm ==
    /\ honeypot.submissions < MaxSubmissions
    /\ \E ip \in Clients, website \in FieldValues, company_name \in FieldValues :
        LET answer == validate_honeypot(honeypot.tracker, ip, website, company_name, now)
            filled == Truthy(website) \/ Truthy(company_name)
        IN honeypot' =
             [tracker |-> answer.tracker,
              recorded |-> IF answer.tracker.triggered_ips[ip] # honeypot.tracker.triggered_ips[ip]
                           THEN [honeypot.recorded EXCEPT ![ip] = Append(@, now)]
                           ELSE honeypot.recorded,
              submissions |-> honeypot.submissions + 1,
              last |-> [ip |-> ip, filled |-> filled, status |-> answer.status]]
    /\ UNCHANGED <<now, ticks, requests, loginVars, mwVars, priceVars,
                   couponVars, cartVars, cacheVars, importer, order_request>>

\* the clock advances between submissions
TickHoneypot ==
    /\ ticks < MaxTicksHoneypot
    /\ \E d \in HoneypotSteps : now' = now + d
    /\ ticks' = ticks + 1
    /\ UNCHANGED <<requests, loginVars, mwVars, priceVars, shopVars>>

\* honeypot_tracker as constructed at import, no submission yet; recorded
\* keeps every trigger time the tracker was given, per ip
HoneypotConstructed ==
    [tracker |-> HoneypotTracker,
     recorded |-> [ip \in Clients |-> <<>>],
     submissions |-> 0,
     last |-> [ip |-> "unknown", filled |-> FALSE, status |-> 0]]

\* no form submission
NoHoneypot == honeypot = HoneypotConstructed

----------------------------------------------------------------------------
(* app/services/order.py: OrderService.create_order, and CartService.get_user_cart
   with PriceCalculator.calculate_cart_total. The user's cart and order are
   lines of one product; the order names a valid address. *)

\* a products row as create_order and the price calculation read it
OrderProducts ==
    [price : Prices \ {0}, offer_price : Optional(Prices), stock : {0},
     is_always_in_stock : BOOLEAN, max_per_buy : Optional({MaxQuantity})]

\* the quantities of the lines of a cart or an order
Lines == SeqsUpTo(1..MaxQuantity, 2)

\* PriceCalculator.calculate_item_total; prices are whole units, which
\* round(..., 2) returns as they are
calculate_item_total(product, quantity, user, db) ==
    get_product_price(product, user, db) * quantity

\* PriceCalculator.calculate_cart_total over the lines of the product
RECURSIVE calculate_cart_total(_, _, _, _)
calculate_cart_total(product, items, user, db) ==
    IF items = <<>>
    THEN 0
    ELSE calculate_item_total(product, Head(items), user, db)
           + calculate_cart_total(product, Tail(items), user, db)

\* CartService.get_user_cart
get_user_cart(product, cart, user, db) ==
    [items |-> cart, total |-> calculate_cart_total(product, cart, {user}, {db})]

\* the loop of create_order over order_in.items: what it raises ("ok" when
\* it raises nothing), with total_amount and order_items_data so far
RECURSIVE OrderLoop(_, _, _, _)
OrderLoop(product, items, total_amount, order_items_data) ==
    IF items = <<>>
    THEN [status |-> "ok", total_amount |-> total_amount, items |-> order_items_data]
    ELSE IF ~product.is_always_in_stock /\ product.stock < Head(items)
    THEN [status |-> "400", total_amount |-> total_amount, items |-> order_items_data]
    ELSE IF product.max_per_buy = {}
    THEN [status |-> "TypeError", total_amount |-> total_amount, items |-> order_items_data]
    ELSE IF \E limit \in product.max_per_buy : Head(items) > limit
    THEN [status |-> "400", total_amount |-> total_amount, items |-> order_items_data]
    ELSE OrderLoop(product, Tail(items),
                   total_amount + product.price * Head(items),
                   Append(order_items_data,
                          [quantity |-> Head(items), price |-> product.price]))

\* the sum of the quantities of lines
RECURSIVE Units(_)
Units(items) == IF items = <<>> THEN 0 ELSE Head(items) + Units(Tail(items))

\* OrderService.create_order
CreateOrder ==
    /\ order_request.status = "none"
    /\ LET looped == OrderLoop(order_request.product, order_request.items, 0, <<>>)
       IN IF looped.status = "ok"
          THEN order_request' =
                 [order_request EXCEPT
                    !.status = "201",
                    !.order = {[total_amount |-> looped.total_amount, items |-> looped.items]},
                    !.product.stock = @ - Units(order_request.items),
                    !.cart = <<>>]
          ELSE order_request' = [order_request EXCEPT !.status = looped.status]
    /\ UNCHANGED <<baseVars, couponVars, cartVars, cacheVars, importer, honeypot>>

\* GET /cart: CartService.get_user_cart for the user
GetUserCart ==
    /\ order_request.reported = {}
    /\ order_request' =
         [order_request EXCEPT
            !.reported = {get_user_cart(order_request.product, order_request.cart,
                                        order_request.user, price_lists)}]
    /\ UNCHANGED <<baseVars, couponVars, cartVars, cacheVars, importer, honeypot>>

\* a user with a cart who is about to order what is in it
Ordering(product, user, items) ==
    [product |-> product, user |-> user, items |-> items, cart |-> items,
     status |-> "none", order |-> {}, reported |-> {}]

\* no order
NoOrder ==
    order_request =
        [Ordering([price |-> 1, offer_price |-> {}, stock |-> 0,
                   is_always_in_stock |-> FALSE, max_per_buy |-> {}],
                  [roles |-> <<>>], <<>>) EXCEPT !.status = "idle", !.reported = {0}]

\* nothing in the shop
ShopIdle ==
    /\ NoCoupons
    /\ NoCart
    /\ NoBestSelling
    /\ NoImport
    /\ NoHoneypot
    /\ NoOrder

----------------------------------------------------------------------------
\* LoginAttemptTracker() as constructed at import
TrackerConstructed ==
    /\ failed_attempts = <<>>
    /\ locked_accounts = <<>>
    /\ last_login = [id |-> "alice", kind |-> "none", status |-> 0,
                     checked |-> FALSE, wiped |-> 0, flip |-> FALSE]
    /\ fails_since_ok = [id \in Identifiers |-> 0]

InitLogin ==
    /\ now = 0
    /\ ticks = 0
    /\ requests = 0
    /\ TrackerConstructed
    /\ MiddlewareConstructed
    /\ NoPricing
    /\ ShopIdle
    /\ blocked_ips = <<>>
    /\ whitelisted_ips = {}
    /\ settings = DefaultSettings

NextLogin == login \/ refresh_token \/ TickLogin

SpecLogin == InitLogin /\ [][NextLogin]_vars

\* the rate-limit model: the middleware over empty tables, rate limiting on
\* or off, auto-blocking off (the default)
InitRate ==
    /\ now = 0
    /\ ticks = 0
    /\ requests = 0
    /\ TrackerConstructed
    /\ MiddlewareConstructed
    /\ NoPricing
    /\ ShopIdle
    /\ blocked_ips = <<>>
    /\ whitelisted_ips = {}
    /\ settings \in [RATE_LIMIT_ENABLED : BOOLEAN, AUTO_BLOCK_ENABLED : {FALSE},
                     ENABLE_HSTS : {TRUE}, ENABLE_CSP : {TRUE}]

NextRate == DispatchRate \/ TickRate

SpecRate == InitRate /\ [][NextRate]_vars

\* what an operator may have done to an address through IPBlockService at
\* time 0, before the first request: nothing, a permanent block, a block of
\* one day, a block that was lifted again
OperatorBlocks(db, ip) ==
    {db,
     block_ip(db, ip, 0, 0, "admin", 1),
     block_ip(db, ip, 0, AUTO_BLOCK_SECONDS, "admin", 1),
     unblock_ip(block_ip(db, ip, 0, 0, "admin", 1), ip)}

\* the blocked_ips tables the block-list model starts from: any of these for
\* 10.0.0.7, and no row or a permanent block for 127.0.0.1
InitialTables ==
    UNION {OperatorBlocks(db, "10.0.0.7") :
             db \in {<<>>, block_ip(<<>>, "127.0.0.1", 0, 0, "admin", 1)}}

\* the block-list model: the middleware over any such blocked_ips table and an
\* empty whitelist table, auto-blocking on or off
InitBlock ==
    /\ now = 0
    /\ ticks = 0
    /\ requests = 0
    /\ TrackerConstructed
    /\ MiddlewareConstructed
    /\ NoPricing
    /\ ShopIdle
    /\ blocked_ips \in InitialTables
    /\ whitelisted_ips = {}
    /\ settings \in [RATE_LIMIT_ENABLED : {TRUE}, AUTO_BLOCK_ENABLED : BOOLEAN,
                     ENABLE_HSTS : {TRUE}, ENABLE_CSP : {TRUE}]

NextBlock == DispatchBlock \/ TickBlock

SpecBlock == InitBlock /\ [][NextBlock]_vars

\* the model of single dispatches: any request, over an empty blocked_ips
\* table and any whitelist table, under any configuration
InitDispatch ==
    /\ now = 0
    /\ ticks = 0
    /\ requests = 0
    /\ TrackerConstructed
    /\ MiddlewareConstructed
    /\ NoPricing
    /\ ShopIdle
    /\ blocked_ips = <<>>
    /\ whitelisted_ips \in SUBSET (IPs \ LOCALHOST)
    /\ settings \in [RATE_LIMIT_ENABLED : BOOLEAN, AUTO_BLOCK_ENABLED : BOOLEAN,
                     ENABLE_HSTS : BOOLEAN, ENABLE_CSP : BOOLEAN]

NextDispatch == DispatchAny \/ TickAny

SpecDispatch == InitDispatch /\ [][NextDispatch]_vars

\* the pricing model: a price calculation for any product and caller over any
\* table of price lists
InitPrice ==
    /\ now = 0
    /\ ticks = 0
    /\ requests = 0
    /\ TrackerConstructed
    /\ MiddlewareConstructed
    /\ blocked_ips = <<>>
    /\ whitelisted_ips = {}
    /\ settings = DefaultSettings
    /\ ShopIdle
    /\ price_lists \in PriceListTables
    /\ pricing \in [product : Products, user : Users, has_db : BOOLEAN,
                    via : {"none"}, result : {0}]

NextPrice == GetProductPrice \/ CalculatePrice

SpecPrice == InitPrice /\ [][NextPrice]_vars

\* the rest of the application at rest
BaseIdle ==
    /\ now = 0
    /\ ticks = 0
    /\ requests = 0
    /\ TrackerConstructed
    /\ MiddlewareConstructed
    /\ blocked_ips = <<>>
    /\ whitelisted_ips = {}
    /\ settings = DefaultSettings
    /\ NoPricing

\* the coupon model: one validation or discount calculation, for any coupon
\* row (or none), any arguments and any time around the validity window
InitCoupon ==
    /\ now \in 0..3
    /\ ticks = 0
    /\ requests = 0
    /\ TrackerConstructed
    /\ MiddlewareConstructed
    /\ blocked_ips = <<>>
    /\ whitelisted_ips = {}
    /\ settings = DefaultSettings
    /\ NoPricing
    /\ coupon \in Optional(CouponRows)
    /\ validation \in [code : Codes, user_id : UserIds, order_total : OrderTotals,
                       via : {"none"}, result : {NotCalled}]
    /\ workers = [w \in Workers |-> [pc |-> "done", loaded |-> {}]]
    /\ coupon_uses = 0
    /\ NoCart
    /\ NoBestSelling
    /\ NoImport
    /\ NoHoneypot
    /\ NoOrder

NextCoupon == ValidateCoupon \/ CalculateDiscount

SpecCoupon == InitCoupon /\ [][NextCoupon]_vars

\* the coupon-race model: concurrent requests for a coupon that is active,
\* unassigned and without a validity window
InitCouponRace ==
    /\ BaseIdle
    /\ coupon \in {{c} : c \in
          [code : {CouponCode}, discount_type : {"fixed"}, discount_value : {1},
           min_order_amount : {{0}}, max_uses : Optional(1..MaxUses),
           current_uses : {0}, max_uses_per_user : Optional({1}),
           is_active : {TRUE}, valid_from : {{}}, valid_to : {{}},
           assigned_users : {{}, {1}}]}
    /\ validation = [code |-> "OTHER", user_id |-> 1, order_total |-> 0,
                     via |-> "none", result |-> NotCalled]
    /\ workers = [w \in Workers |-> [pc |-> "start", loaded |-> {}]]
    /\ coupon_uses = 0
    /\ NoCart
    /\ NoBestSelling
    /\ NoImport
    /\ NoHoneypot
    /\ NoOrder

NextCouponRace == \E w \in Workers : WorkerValidate(w) \/ WorkerApply(w)

SpecCouponRace == InitCouponRace /\ [][NextCouponRace]_vars

\* the cart model: empty carts, product 1 in any condition, product 2 on open
\* sale, no product 3
InitCart ==
    /\ BaseIdle
    /\ NoCoupons
    /\ products \in {(1 :> p) @@ (2 :> [stock |-> 0, is_always_in_stock |-> TRUE,
                                         max_per_buy |-> {}, is_active |-> TRUE]) :
                      p \in ProductRows}
    /\ cart_items = <<>>
    /\ cart_ops = 0
    /\ cart_result = [op |-> "none", user_id |-> 1, product_id |-> 0, item_id |-> 0,
                      quantity |-> 0, status |-> 0, flip |-> FALSE]
    /\ NoBestSelling
    /\ NoImport
    /\ NoHoneypot
    /\ NoOrder

NextCart == AddItem \/ UpdateItem \/ RemoveItem \/ ClearCart

SpecCart == InitCart /\ [][NextCart]_vars

\* the best-selling model: concurrent requests for rankings and for clearing
\* the cache, with or without Redis, with or without sales
InitBestSelling ==
    /\ BaseIdle
    /\ NoCoupons
    /\ NoCart
    /\ best_selling \in [redis_up : BOOLEAN, has_sales : BOOLEAN,
                         cache : {[l \in Limits |-> {}]},
                         clears_started : {0}, clears_done : {0}]
    /\ bs_requests = [r \in BsRequests |-> BsIdle]
    /\ NoImport
    /\ NoHoneypot
    /\ NoOrder

NextBestSelling ==
    \/ \E r \in BsRequests :
        GetRead(r) \/ GetQuery(r) \/ GetSet(r) \/ ClearKeys(r) \/ ClearDelete(r)
    \/ Expire

SpecBestSelling == InitBestSelling /\ [][NextBestSelling]_vars

\* the import model: one import of any file of up to MaxRows data rows, with
\* any batch_size, into a products table that is empty or holds slug "a"
InitCsv ==
    /\ BaseIdle
    /\ NoCoupons
    /\ NoCart
    /\ NoBestSelling
    /\ importer \in {ImportStarted(rows, batch_size, db) :
                        rows \in SeqsUpTo(CsvRows, MaxRows),
                        batch_size \in 1..MaxBatchSize,
                        db \in {{}, {"a"}}}
    /\ NoHoneypot
    /\ NoOrder

\* the order model: any product, any user, at most one price list, and an
\* order of the lines of the user's cart
InitOrder ==
    /\ now = 0
    /\ ticks = 0
    /\ requests = 0
    /\ TrackerConstructed
    /\ MiddlewareConstructed
    /\ blocked_ips = <<>>
    /\ whitelisted_ips = {}
    /\ settings = DefaultSettings
    /\ price_lists \in SeqsUpTo(PriceListRows, 1)
    /\ pricing = [product |-> [price |-> 1, offer_price |-> {}], user |-> {},
                  has_db |-> FALSE, via |-> "none", result |-> 0]
    /\ NoCoupons
    /\ NoCart
    /\ NoBestSelling
    /\ NoImport
    /\ NoHoneypot
    /\ order_request \in {Ordering(product, user, items) :
                             product \in OrderProducts,
                             user \in [roles : RoleLists],
                             items \in Lines}

NextOrder == CreateOrder \/ GetUserCart

SpecOrder == InitOrder /\ [][NextOrder]_vars

\* the honeypot model: form submissions from two addresses, at any times
InitHoneypot ==
    /\ BaseIdle
    /\ NoCoupons
    /\ NoCart
    /\ NoBestSelling
    /\ NoImport
    /\ honeypot = HoneypotConstructed
    /\ NoOrder

NextHoneypot == SubmitForm \/ TickHoneypot

SpecHoneypot == InitHoneypot /\ [][NextHoneypot]_vars

NextCsv == ImportRow \/ ImportEnd

SpecCsv == InitCsv /\ [][NextCsv]_vars

----------------------------------------------------------------------------
(* Claims about the security middleware *)

\* the step is the dispatch of a request from ip
MwStep(ip) == last_response'.flip # last_response.flip /\ last_response'.ip = ip

\* how many requests of ip the rate limiter admitted less than window seconds
\* ago; with login_only, how many of them to a login endpoint
Admitted(ip, window, login_only) ==
    Cardinality({i \in 1..Len(admitted[ip]) :
                   /\ now - admitted[ip][i].t < window
                   /\ login_only => admitted[ip][i].login})

\* the request was not passed to the application: an earlier check or the
\* rate limiter answered it
Refused(answer) ==
    \/ answer.rejected_by \in {"block", "whitelist"} /\ answer.status = 403
    \/ answer.rejected_by = "rate_limit" /\ answer.status = 429

\* C4: with rate limiting enabled, at every instant and for every address, the
\* rate limiter has admitted at most RATE_LIMIT_PER_MINUTE of its requests
\* within the last minute and at most RATE_LIMIT_PER_HOUR within the last
\* hour; a request that arrives when either count is at its limit is not
\* passed to the application: it is answered 429 (or 403 by the block or
\* whitelist check that runs first).
C4_RateLimit ==
    /\ [](settings.RATE_LIMIT_ENABLED =>
            \A ip \in IPs :
                /\ Admitted(ip, MINUTE, FALSE) <= RATE_LIMIT_PER_MINUTE
                /\ Admitted(ip, HOUR, FALSE) <= RATE_LIMIT_PER_HOUR)
    /\ [][\A ip \in IPs :
            /\ MwStep(ip)
            /\ settings.RATE_LIMIT_ENABLED
            /\ \/ Admitted(ip, MINUTE, FALSE) >= RATE_LIMIT_PER_MINUTE
               \/ Admitted(ip, HOUR, FALSE) >= RATE_LIMIT_PER_HOUR
            => Refused(last_response') /\ admitted' = admitted]_vars

\* C4 witness: a request answered 429 because of the hourly limit alone
C4_Witness ==
    /\ last_response.status = 429
    /\ ~last_response.login
    /\ Admitted(last_response.ip, MINUTE, FALSE) < RATE_LIMIT_PER_MINUTE
    /\ Admitted(last_response.ip, HOUR, FALSE) = RATE_LIMIT_PER_HOUR

\* the login-endpoint lists of every RateLimitEntry
LoginLists(d) ==
    [ip \in IPs |-> <<EntryOf(d, ip).login_minute_requests,
                      EntryOf(d, ip).login_hour_requests>>]

\* C5: with rate limiting enabled, for every address the rate limiter has
\* admitted at most RATE_LIMIT_LOGIN_PER_MINUTE requests to login endpoints
\* within the last minute and at most RATE_LIMIT_LOGIN_PER_HOUR within the last
\* hour; a request to another path leaves the login lists alone and is not
\* rate limited while the general counts are below their limits.
C5_LoginLimit ==
    /\ [](settings.RATE_LIMIT_ENABLED =>
            \A ip \in IPs :
                /\ Admitted(ip, MINUTE, TRUE) <= RATE_LIMIT_LOGIN_PER_MINUTE
                /\ Admitted(ip, HOUR, TRUE) <= RATE_LIMIT_LOGIN_PER_HOUR)
    /\ [][\A ip \in IPs :
            MwStep(ip) /\ ~last_response'.login
            => /\ LoginLists(rate_limits') = LoginLists(rate_limits)
               /\ /\ Admitted(ip, MINUTE, FALSE) < RATE_LIMIT_PER_MINUTE
                  /\ Admitted(ip, HOUR, FALSE) < RATE_LIMIT_PER_HOUR
                  => last_response'.rejected_by # "rate_limit"]_vars

\* C5 witness: a request to another path is passed on although the address
\* has used up its login quota of the minute
C5_Witness ==
    /\ settings.RATE_LIMIT_ENABLED
    /\ ~last_response.login
    /\ last_response.status = 200
    /\ Admitted(last_response.ip, MINUTE, TRUE) = RATE_LIMIT_LOGIN_PER_MINUTE
    /\ EntryOf(rate_limits, last_response.ip).minute_requests[
            Len(EntryOf(rate_limits, last_response.ip).minute_requests)] = now
    /\ Len(EntryOf(rate_limits, last_response.ip).login_minute_requests)
         = RATE_LIMIT_LOGIN_PER_MINUTE

SecurityHeaders ==
    {"X-Content-Type-Options", "X-XSS-Protection", "X-Frame-Options",
     "Referrer-Policy", "Permissions-Policy"}

\* C6: every response dispatch returns carries the five security headers.
C6_HeadersOnEveryResponse ==
    last_response.status # 0 => SecurityHeaders \subseteq last_response.headers

\* ip has a row in blocked_ips that is active and permanent or not yet expired
ActiveBlock(ip) ==
    /\ ip \in DOMAIN blocked_ips
    /\ blocked_ips[ip].is_active
    /\ \A u \in blocked_ips[ip].blocked_until : now < u

\* C7: a request from an address with an active, unexpired block is answered
\* 403 by the block check; it changes neither the rate limiter's lists nor the
\* record of admitted requests nor the suspicious-activity scores.
C7_BlockedFirst ==
    [][\A ip \in IPs :
        MwStep(ip) /\ ActiveBlock(ip)
        => /\ last_response'.status = 403
           /\ last_response'.rejected_by = "block"
           /\ UNCHANGED <<rate_limits, admitted, suspicious_ips, blocked_ips>>]_vars

\* C7 witness: a request answered 403 one second before its one-day block
\* runs out, from an address that had requests admitted before
C7_Witness ==
    /\ last_response.rejected_by = "block"
    /\ last_response.ip \in DOMAIN blocked_ips
    /\ blocked_ips[last_response.ip].blocked_until = {now + 1}
    /\ last_response.ip \in DOMAIN rate_limits

\* ip has an active row written by the auto-block whose time has run out, and
\* its score is what it was when the row was written
LapsedAutoBlock(ip) ==
    /\ ip \in DOMAIN blocked_ips
    /\ blocked_ips[ip].is_active
    /\ blocked_ips[ip].blocked_by = "auto"
    /\ \E u \in blocked_ips[ip].blocked_until : u <= now
    /\ ScoreOf(suspicious_ips, ip) = blocked_ips[ip].violation_count

\* C8: with AUTO_BLOCK_ENABLED, a request from an address without a row whose
\* score has reached 10 is answered 403 and starts a block of 24 hours;
\* requests during the block are answered 403; and a request made once the 24
\* hours have passed without a new violation is no longer answered by the
\* block check.
C8_AutoBlockLapses ==
    [][\A ip \in IPs :
        MwStep(ip) /\ settings.AUTO_BLOCK_ENABLED
        => /\ ScoreOf(suspicious_ips, ip) >= AUTO_BLOCK_SCORE
              /\ ip \notin DOMAIN blocked_ips
              => /\ last_response'.rejected_by = "block"
                 /\ blocked_ips'[ip].blocked_until = {now + AUTO_BLOCK_SECONDS}
           /\ ActiveBlock(ip) => last_response'.rejected_by = "block"
           /\ LapsedAutoBlock(ip) => last_response'.rejected_by # "block"]_vars

----------------------------------------------------------------------------
(* Claims about the login lockout *)

\* the step is a login or refresh request for id
AuthStep(id) == last_login'.flip # last_login.flip /\ last_login'.id = id

\* id carries a lock that is at most ACCOUNT_LOCKOUT_DURATION seconds old
LockInForce(id) ==
    /\ id \in DOMAIN locked_accounts
    /\ now - locked_accounts[id] <= ACCOUNT_LOCKOUT_DURATION

\* id carries a lock older than ACCOUNT_LOCKOUT_DURATION seconds
LockExpired(id) ==
    /\ id \in DOMAIN locked_accounts
    /\ now - locked_accounts[id] > ACCOUNT_LOCKOUT_DURATION

NumFailed(id) == Len(DictGetList(failed_attempts, id))

\* C1: once MAX_LOGIN_ATTEMPTS failed attempts are recorded for an identifier
\* (all of them less than an hour old when the last was recorded) the
\* identifier is locked with the time of that last attempt, and every login or
\* refresh request for it made while the lock is at most
\* ACCOUNT_LOCKOUT_DURATION seconds old is answered 423 without the
\* credentials being checked.
C1_LockedRejected ==
    /\ [](\A id \in Identifiers :
            /\ NumFailed(id) >= MAX_LOGIN_ATTEMPTS
                 => /\ id \in DOMAIN locked_accounts
                    /\ locked_accounts[id] =
                         failed_attempts[id][Len(failed_attempts[id])]
            /\ \A i \in 1..NumFailed(id) :
                 failed_attempts[id][NumFailed(id)] - failed_attempts[id][i] < HOUR)
    /\ [][\A id \in Identifiers :
            AuthStep(id) /\ LockInForce(id)
                => last_login'.status = 423 /\ ~last_login'.checked]_vars

\* C1 witness: a request answered 423 while its lock is exactly
\* ACCOUNT_LOCKOUT_DURATION seconds old
C1_Witness ==
    /\ last_login.status = 423
    /\ last_login.id \in DOMAIN locked_accounts
    /\ now - locked_accounts[last_login.id] = ACCOUNT_LOCKOUT_DURATION
    /\ NumFailed(last_login.id) = MAX_LOGIN_ATTEMPTS

\* C2: a request rejected with 423 changes neither the failed-attempt history
\* nor the lock time; a request made when the lock is older than
\* ACCOUNT_LOCKOUT_DURATION is checked against the credentials, and after it no
\* lock and no attempt recorded before it remain for the identifier.
C2_LockoutEnds ==
    [][\A id \in Identifiers :
        /\ AuthStep(id) /\ last_login'.status = 423
             => UNCHANGED <<failed_attempts, locked_accounts>>
        /\ AuthStep(id) /\ LockExpired(id)
             => /\ last_login'.checked
                /\ last_login'.status # 423
                /\ id \notin DOMAIN locked_accounts'
                /\ DictGetList(failed_attempts', id) \in {<<>>, <<now>>}]_vars

\* C2 witness: a request whose credentials were checked and refused one second
\* after the lockout ran out: only that attempt is on record
C2_Witness ==
    /\ last_login.status = 401
    /\ fails_since_ok[last_login.id] = MAX_LOGIN_ATTEMPTS
    /\ failed_attempts[last_login.id] = <<ACCOUNT_LOCKOUT_DURATION + 1>>
    /\ now = ACCOUNT_LOCKOUT_DURATION + 1
    /\ last_login.id \notin DOMAIN locked_accounts

\* C3: right after a successful login the identifier has no failed-attempt
\* history and no lock, and an identifier is locked only when at least
\* MAX_LOGIN_ATTEMPTS failed attempts were answered since its latest
\* successful login.
C3_SuccessClears ==
    /\ [](\A id \in Identifiers :
            id \in DOMAIN locked_accounts
                => fails_since_ok[id] >= MAX_LOGIN_ATTEMPTS)
    /\ [][\A id \in Identifiers :
            AuthStep(id) /\ last_login'.kind = "login" /\ last_login'.status = 200
                => /\ id \notin DOMAIN failed_attempts'
                   /\ id \notin DOMAIN locked_accounts']_vars

\* C3 witness: a successful login that removed a history of
\* MAX_LOGIN_ATTEMPTS - 1 failed attempts
C3_Witness ==
    /\ last_login.kind = "login"
    /\ last_login.status = 200
    /\ last_login.wiped = MAX_LOGIN_ATTEMPTS - 1
    /\ last_login.id \notin DOMAIN failed_attempts
    /\ last_login.id \notin DOMAIN locked_accounts

----------------------------------------------------------------------------
(* Claims about the price calculation *)

\* the rows of price_lists that are active and filtered on the role
ActiveLists(slug) ==
    {i \in 1..Len(price_lists) :
        price_lists[i].role_filter = slug /\ price_lists[i].is_active}

\* the active price lists of the role that contain the product
ListsWithProduct(slug) == {i \in ActiveLists(slug) : price_lists[i].item # {}}

\* the earliest active price list of the role
EarliestList(slug) == {i \in ActiveLists(slug) : \A j \in ActiveLists(slug) : i <= j}

\* the price of the product in row i
ItemPrice(i) == CHOOSE p \in price_lists[i].item : TRUE

\* the roles of the user priced for
RolesPriced == UNION {{u.roles[k] : k \in 1..Len(u.roles)} : u \in pricing.user}

\* calculate_price was applied for a user with roles, with a session
PricedForRoles ==
    /\ pricing.via = "calculate_price"
    /\ pricing.has_db
    /\ RolesPriced # {}

\* the price before the offer: that of the product in the earliest active
\* list of the first role, in the user's order, whose earliest active list
\* contains the product; the base price without such a role
PriceBeforeOffer ==
    LET roles == (CHOOSE u \in pricing.user : TRUE).roles
        hits == {k \in 1..Len(roles) :
                   EarliestList(roles[k]) \cap ListsWithProduct(roles[k]) # {}}
    IN IF hits = {}
       THEN pricing.product.price
       ELSE LET k == CHOOSE h \in hits : \A g \in hits : h <= g
            IN ItemPrice(CHOOSE i \in EarliestList(roles[k]) : TRUE)

C10_OfferIsLowest ==
    pricing.via = "get_product_price" =>
        \A o \in pricing.product.offer_price : o > 0 => pricing.result <= o

----------------------------------------------------------------------------
(* Claims about coupons *)

\* the discount, in hundredths, that the claim gives for the coupon and total
DiscountStated(c, order_total) ==
    IF \E a \in c.min_order_amount : order_total < a
    THEN 0
    ELSE Min(IF c.discount_type = "percentage"
             THEN order_total * c.discount_value
             ELSE c.discount_value * 100,
             order_total * 100)

\* C11: for every coupon and every non-negative order_total,
\* calculate_discount returns 0 when order_total is below min_order_amount,
\* otherwise the percentage of order_total or the fixed discount_value,
\* capped at order_total; the result lies between 0 and order_total.
C11_DiscountBounded ==
    validation.via = "calculate_discount" =>
        /\ validation.result.kind = "returned"
        /\ \A c \in coupon :
            validation.result.discount_amount =
                {DiscountStated(c, validation.order_total)}
        /\ \A d \in validation.result.discount_amount :
            0 <= d /\ d <= validation.order_total * 100

\* every condition of the claim holds for the validation's arguments; no
\* order refers to a coupon, so no user has used one
AllConditions ==
    \E c \in coupon :
        /\ c.code = Upper(validation.code)
        /\ c.is_active
        /\ \A f \in c.valid_from : f <= now
        /\ \A u \in c.valid_to : now <= u
        /\ \A m \in c.max_uses : c.current_uses < m
        /\ c.assigned_users # {} => validation.user_id \in c.assigned_users
        /\ \A m \in c.max_uses_per_user : 0 < m
        /\ \E a \in c.min_order_amount : validation.order_total >= a

\* C12: validate_coupon returns valid only if the coupon exists, is active,
\* is inside its validity window, has uses left, is available to the user,
\* the user has uses left and order_total reaches min_order_amount; in every
\* other case it returns invalid with no discount amount and no coupon.
C12_ValidOnlyIf ==
    validation.via = "validate_coupon" =>
        /\ validation.result.kind = "returned"
        /\ validation.result.is_valid => AllConditions
        /\ ~AllConditions =>
            /\ ~validation.result.is_valid
            /\ validation.result.discount_amount = {}
            /\ validation.result.coupon = {}

\* C13: a coupon's uses are bounded by its usage count: with max_uses set,
\* under any interleaving of requests that validate and then apply, neither
\* the number of times the coupon was applied nor current_uses exceeds
\* max_uses.
C13_UsesBounded ==
    \A c \in coupon : \A m \in c.max_uses :
        c.current_uses <= m /\ coupon_uses <= m

----------------------------------------------------------------------------
(* Claims about the cart *)

\* the step is a cart request
CartStep == cart_result'.flip # cart_result.flip

\* the rows of the user for the product in a table
RowsFor(items, user_id, product_id) ==
    {i \in 1..Len(items) :
        items[i].user_id = user_id /\ items[i].product_id = product_id}

\* C14: a successful add_item_to_cart adds the requested quantity to the
\* user's item for the product when there is one, leaving the other rows
\* alone, and appends a new item otherwise; at all times a user's cart holds
\* at most one item per product.
C14_OneItemPerProduct ==
    /\ [](\A i, j \in 1..Len(cart_items) :
            /\ cart_items[i].user_id = cart_items[j].user_id
            /\ cart_items[i].product_id = cart_items[j].product_id
            => i = j)
    /\ [][CartStep /\ cart_result'.op = "add" /\ cart_result'.status = 201
          => LET r == cart_result'
                 had == RowsFor(cart_items, r.user_id, r.product_id)
             IN IF had # {}
                THEN /\ Len(cart_items') = Len(cart_items)
                     /\ \A i \in 1..Len(cart_items) :
                         cart_items'[i] =
                            IF i \in had
                            THEN [cart_items[i] EXCEPT !.quantity = @ + r.quantity]
                            ELSE cart_items[i]
                ELSE /\ Len(cart_items') = Len(cart_items) + 1
                     /\ SubSeq(cart_items', 1, Len(cart_items)) = cart_items
                     /\ LET new == cart_items'[Len(cart_items')]
                        IN /\ new.user_id = r.user_id
                           /\ new.product_id = r.product_id
                           /\ new.quantity = r.quantity]_vars

\* C14 witness: an add that raised the quantity of an item the user had
C14_Witness ==
    /\ cart_result.op = "add"
    /\ cart_result.status = 201
    /\ cart_result.quantity > 0
    /\ \E i \in RowsFor(cart_items, cart_result.user_id, cart_result.product_id) :
        cart_items[i].quantity > cart_result.quantity
    /\ Len(cart_items) > 1

\* the quantity is more than the product allows: the product is not active,
\* or it is not always in stock and has less stock, or it has a max_per_buy
\* (not NULL, not 0) that is lower
Breaks(product, quantity) ==
    \/ ~product.is_active
    \/ ~product.is_always_in_stock /\ quantity > product.stock
    \/ \E m \in product.max_per_buy : m # 0 /\ quantity > m

\* C15: after a successful add_item_to_cart or update_cart_item the item has
\* the quantity asked for (added to what it had, for an add) and that quantity
\* is within max_per_buy when set and within the stock unless the product is
\* always in stock, and the product is active; a request whose resulting
\* quantity would break one of these is answered 400 and leaves the cart
\* unchanged.
C15_WithinLimits ==
    [][/\ CartStep
       /\ cart_result'.op \in {"add", "update"}
       /\ cart_result'.product_id \in DOMAIN products
       => LET r == cart_result'
              had == RowsFor(cart_items, r.user_id, r.product_id)
              target == IF r.op = "add" /\ had # {}
                        THEN cart_items[CHOOSE i \in had : TRUE].quantity + r.quantity
                        ELSE r.quantity
          IN /\ r.status \in {200, 201} =>
                 /\ ~Breaks(products[r.product_id], target)
                 /\ \E i \in RowsFor(cart_items', r.user_id, r.product_id) :
                     cart_items'[i].quantity = target
             /\ Breaks(products[r.product_id], target) =>
                 /\ r.status = 400
                 /\ cart_items' = cart_items]_vars

\* C15 witness: an add refused because of the total, with an added quantity
\* that the stock alone would cover
C15_Witness ==
    /\ cart_result.op = "add"
    /\ cart_result.status = 400
    /\ cart_result.product_id \in DOMAIN products
    /\ LET product == products[cart_result.product_id]
       IN /\ product.is_active
          /\ ~product.is_always_in_stock
          /\ product.max_per_buy = {}
          /\ cart_result.quantity <= product.stock
          /\ \E i \in RowsFor(cart_items, cart_result.user_id, cart_result.product_id) :
              cart_items[i].quantity + cart_result.quantity > product.stock

----------------------------------------------------------------------------
(* Claims about the best-selling cache *)

\* C16: a get_best_selling_products call that begins after a clear_cache has
\* returned true never returns a ranking computed before that clear began,
\* for any limit and also when another request was computing and caching a
\* ranking while the cache was being cleared.
C16_ClearForcesRefresh ==
    \A r \in BsRequests :
        bs_requests[r].kind = "get" =>
            \A answer \in bs_requests[r].returned :
                \A computed \in answer.ranking :
                    computed >= bs_requests[r].began_after

----------------------------------------------------------------------------
(* Claims about the CSV import *)

\* data row i is in errors under its row number
Recorded(i) ==
    \E k \in 1..Len(importer.errors) : importer.errors[k].row = row_num(i)

\* the product of data row i is in the products table
Imported(i) == i \in importer.added

\* the counts of the CSVImportResult agree
CountsAgree ==
    /\ importer.total_rows = importer.successful + importer.failed
    /\ importer.failed = Len(importer.errors)
    /\ importer.successful = Cardinality(importer.added)

\* C17: once an import is over, every data row has either been added to the
\* products table or been recorded in errors under its row number (data row
\* i is row i + 1), every row has been read, and if a result is returned
\* its counts agree: total_rows = successful + failed, failed = len(errors),
\* successful = number of products added
C17_RowErrorsAggregated ==
    importer.ended \in {"result", "500"} =>
        /\ importer.total_rows = Len(importer.rows)
        /\ \A i \in 1..Len(importer.rows) : Recorded(i) # Imported(i)
        /\ importer.ended = "result" => CountsAgree

\* a supporting invariant: whenever a result is returned, every row was
\* either added or recorded, and the counts agree
ImportResultsAgree ==
    importer.ended = "result" =>
        /\ importer.total_rows = Len(importer.rows)
        /\ \A i \in 1..Len(importer.rows) : Recorded(i) # Imported(i)
        /\ CountsAgree
----------------------------------------------------------------------------
(* Claims about the honeypot *)

\* a submission has been validated in this step
HpStep == honeypot'.submissions = honeypot.submissions + 1

\* how often time t is among the triggers the tracker holds for ip
TimesHeld(h, ip, t) == Len(SelectSeq(h.tracker.triggered_ips[ip], LAMBDA x : x = t))

\* ip has given three triggers less than 24 hours apart
ThreeWithinDay(ip) ==
    \E i, j, k \in 1..Len(honeypot.recorded[ip]) :
        /\ i < j /\ j < k
        /\ honeypot.recorded[ip][k] - honeypot.recorded[ip][i] < DAY

\* C18: a submission with a filled honeypot field is answered 400 and its
\* time is added to the triggers of its ip; a submission from a banned ip is
\* rejected (400 or 403) whether its fields are filled or not; a ban is never
\* lifted; and an ip is banned exactly if it has given three triggers less
\* than 24 hours apart
C18_HoneypotBan ==
    /\ [][HpStep =>
            LET ip == honeypot'.last.ip
            IN /\ honeypot'.last.filled =>
                     /\ honeypot'.last.status = 400
                     /\ TimesHeld(honeypot', ip, now) = TimesHeld(honeypot, ip, now) + 1
               /\ is_banned(honeypot.tracker, ip) => honeypot'.last.status \in {400, 403}
               /\ honeypot.tracker.banned_ips \subseteq honeypot'.tracker.banned_ips]_vars
    /\ [](\A ip \in Clients : is_banned(honeypot.tracker, ip) <=> ThreeWithinDay(ip))

\* an ip banned for three triggers has then submitted a form with empty
\* honeypot fields and was refused
C18_Witness ==
    /\ is_banned(honeypot.tracker, honeypot.last.ip)
    /\ ThreeWithinDay(honeypot.last.ip)
    /\ ~honeypot.last.filled
    /\ honeypot.last.status = 403

\* three triggers spanning exactly 24 hours, and no ban
HoneypotBoundary ==
    \E ip \in Clients :
        /\ Len(honeypot.recorded[ip]) = 3
        /\ honeypot.recorded[ip][3] - honeypot.recorded[ip][1] = DAY
        /\ ~is_banned(honeypot.tracker, ip)
----------------------------------------------------------------------------
(* Claims about orders *)

\* what the user is charged for the lines, by PriceCalculator.get_product_price
Charged(items) ==
    Units(items) * get_product_price(order_request.product, {order_request.user},
                                     {price_lists})

\* C19: the total_amount of a created order is the sum over its items of
\* quantity times the price get_product_price gives the user for the product,
\* and it is the total get_user_cart reported to the user for these lines
C19_OrderTotalIsCartTotal ==
    \A order \in order_request.order :
        /\ order.total_amount = Charged(order_request.items)
        /\ \A cart \in order_request.reported :
              cart.items = order_request.items => order.total_amount = cart.total

====
